---- MODULE Spec2Model ----
(***************************************************************************)
(* Tuya TS0601 vibration door sensor quirk (zhaquirks/tuya/ts601_door.py). *)
(* The device is modelled as the three synthesized endpoints with their    *)
(* cluster instances and attribute caches; the only operation after        *)
(* construction is the translation of one Tuya data-point report.          *)
(***************************************************************************)
EXTENDS Integers, Sequences, FiniteSets, TLC

VARIABLES endpoints, lastReport, latest, latestOk

vars == <<endpoints, lastReport, latest, latestOk>>

(* ------------------------------ bounds --------------------------------- *)
MaxDpId == 11
MaxRaw == 2
MaxBytesLen == 1
MaxBatteryRaw == 101

(* ------------------------- payload values ------------------------------ *)
\* A data point payload is an integer or a byte string; attribute values
\* written from payloads share the representation.
IntVal(n) == [kind |-> "int", int |-> n, bytes |-> <<>>]
BytesVal(b) == [kind |-> "bytes", int |-> 0, bytes |-> b]
TypeError == [kind |-> "TypeError", int |-> 0, bytes |-> <<>>]
NoReport == [kind |-> "none", int |-> 0, bytes |-> <<>>]

\* Byte strings up to the bound; the byte values themselves play no part.
ByteStrings == UNION {[1..n -> {0}] : n \in 0..MaxBytesLen}
Payloads == {IntVal(n) : n \in (0 - 1)..MaxRaw} \cup {BytesVal(b) : b \in ByteStrings}
DpIds == 0..MaxDpId

(* --------------------------- module constants -------------------------- *)
\* Variant: the door data point declared under another id.
DOOR_HANDLE_DP_ID_renumbered == 1 + 1

DOOR_HANDLE_DP_ID == 1
BATTERY_STATE_DP_ID == 3
\* Variant: the vibration data point declared with the door's id.
VIBRATION_DP_ID_duplicate == 0 + 1

VIBRATION_DP_ID == 10

DP_HANDLER_EP_ID == 1
DOOR_HANDLE_EP_ID == 2
VIBRATION_EP_ID == 3

Alarm_1 == 1
ZONE_STATE == "ZONE_STATE"

(* ------------------------------ converters ----------------------------- *)
RECURSIVE BitAnd(_, _)
\* Python's & on integers of arbitrary sign with a non-negative mask.
BitAnd(a, b) ==
    IF a = 0 \/ b = 0 THEN 0
    ELSE (a % 2) * (b % 2) + 2 * BitAnd(a \div 2, b \div 2)

\* Variant: the vendor status word stored without masking.
zone_status_converter_unmasked(x) ==
    IF x.kind = "int" THEN IntVal(x.int) ELSE TypeError

\* lambda x: ZoneStatus.Alarm_1 & x  -- & is not defined for bytes.
zone_status_converter(x) ==
    IF x.kind = "int" THEN IntVal(BitAnd(Alarm_1, x.int)) ELSE TypeError

\* Variant: the battery level stored in the device's 1% steps.
battery_converter_unscaled(x) ==
    IF x.kind = "int" THEN IntVal(x.int) ELSE BytesVal(x.bytes)

\* lambda x: 2 * x  -- on bytes, * is sequence repetition.
battery_converter(x) ==
    IF x.kind = "int" THEN IntVal(2 * x.int) ELSE BytesVal(x.bytes \o x.bytes)

converter(name, x) ==
    IF name = "zone_status_converter" THEN zone_status_converter(x)
    ELSE battery_converter(x)

(* ------------------------------ dict literals -------------------------- *)
\* A dict literal is a list of key/value items; a later item with the same
\* key replaces an earlier one.
RECURSIVE dict(_)
dict(items) ==
    IF items = <<>> THEN [k \in {} |-> 0]
    ELSE (items[Len(items)][1] :> items[Len(items)][2])
             @@ dict(SubSeq(items, 1, Len(items) - 1))

\* Variant: both sensors mapped to the IasZone cluster of the door endpoint.
dp_to_attribute_items_same_endpoint ==
    << <<DOOR_HANDLE_DP_ID,
         [endpoint_id |-> DOOR_HANDLE_EP_ID, ep_attribute |-> "ias_zone",
          attribute_name |-> "zone_status", converter |-> "zone_status_converter"]>>,
       <<VIBRATION_DP_ID,
         [endpoint_id |-> DOOR_HANDLE_EP_ID, ep_attribute |-> "ias_zone",
          attribute_name |-> "zone_status", converter |-> "zone_status_converter"]>>,
       <<BATTERY_STATE_DP_ID,
         [endpoint_id |-> DP_HANDLER_EP_ID, ep_attribute |-> "power",
          attribute_name |-> "battery_percentage_remaining",
          converter |-> "battery_converter"]>> >>

\* Variant: the battery data point mapped to the wrong attribute name.
dp_to_attribute_items_wrong_attribute ==
    << <<DOOR_HANDLE_DP_ID,
         [endpoint_id |-> DOOR_HANDLE_EP_ID, ep_attribute |-> "ias_zone",
          attribute_name |-> "zone_status", converter |-> "zone_status_converter"]>>,
       <<VIBRATION_DP_ID,
         [endpoint_id |-> VIBRATION_EP_ID, ep_attribute |-> "ias_zone",
          attribute_name |-> "zone_status", converter |-> "zone_status_converter"]>>,
       <<BATTERY_STATE_DP_ID,
         [endpoint_id |-> DP_HANDLER_EP_ID, ep_attribute |-> "power",
          attribute_name |-> "battery_quantity",
          converter |-> "battery_converter"]>> >>

dp_to_attribute_items ==
    << <<DOOR_HANDLE_DP_ID,
         [endpoint_id |-> DOOR_HANDLE_EP_ID, ep_attribute |-> "ias_zone",
          attribute_name |-> "zone_status", converter |-> "zone_status_converter"]>>,
       <<VIBRATION_DP_ID,
         [endpoint_id |-> VIBRATION_EP_ID, ep_attribute |-> "ias_zone",
          attribute_name |-> "zone_status", converter |-> "zone_status_converter"]>>,
       <<BATTERY_STATE_DP_ID,
         [endpoint_id |-> DP_HANDLER_EP_ID, ep_attribute |-> "power",
          attribute_name |-> "battery_percentage_remaining",
          converter |-> "battery_converter"]>> >>

dp_to_attribute == dict(dp_to_attribute_items)

\* Variant: the battery data point left without a handler.
data_point_handlers_items_without_battery ==
    << <<DOOR_HANDLE_DP_ID, "_dp_2_attr_update">>,
       <<VIBRATION_DP_ID, "_dp_2_attr_update">> >>

data_point_handlers_items ==
    << <<DOOR_HANDLE_DP_ID, "_dp_2_attr_update">>,
       <<VIBRATION_DP_ID, "_dp_2_attr_update">>,
       <<BATTERY_STATE_DP_ID, "_dp_2_attr_update">> >>

data_point_handlers == dict(data_point_handlers_items)

(* ------------------------------ topology ------------------------------- *)
\* Variant: both IasZone extensions declared on the door endpoint.
replacement_one_zone_endpoint ==
    [ENDPOINTS |->
        (DP_HANDLER_EP_ID :>
            [PROFILE_ID |-> "zha", DEVICE_TYPE |-> "SMART_PLUG",
             INPUT_CLUSTERS |-> <<"CustomBasicCluster", "Groups", "Scenes",
                                  "CustomTuyaPowerConfigurationCluster",
                                  "CustomTuyaDPProcessor">>,
             OUTPUT_CLUSTERS |-> <<"Time", "Ota">>])
        @@ (DOOR_HANDLE_EP_ID :>
            [PROFILE_ID |-> "zha", DEVICE_TYPE |-> "IAS_ZONE",
             INPUT_CLUSTERS |-> <<"CustomBasicCluster", "Groups", "Scenes",
                                  "CustomTuyaContactSwitchCluster",
                                  "CustomTuyaVibrationCluster">>,
             OUTPUT_CLUSTERS |-> <<"Time">>])
        @@ (VIBRATION_EP_ID :>
            [PROFILE_ID |-> "zha", DEVICE_TYPE |-> "IAS_ZONE",
             INPUT_CLUSTERS |-> <<"CustomBasicCluster", "Groups", "Scenes">>,
             OUTPUT_CLUSTERS |-> <<"Time">>])]

replacement ==
    [ENDPOINTS |->
        (DP_HANDLER_EP_ID :>
            [PROFILE_ID |-> "zha", DEVICE_TYPE |-> "SMART_PLUG",
             INPUT_CLUSTERS |-> <<"CustomBasicCluster", "Groups", "Scenes",
                                  "CustomTuyaPowerConfigurationCluster",
                                  "CustomTuyaDPProcessor">>,
             OUTPUT_CLUSTERS |-> <<"Time", "Ota">>])
        @@ (DOOR_HANDLE_EP_ID :>
            [PROFILE_ID |-> "zha", DEVICE_TYPE |-> "IAS_ZONE",
             INPUT_CLUSTERS |-> <<"CustomBasicCluster", "Groups", "Scenes",
                                  "CustomTuyaContactSwitchCluster">>,
             OUTPUT_CLUSTERS |-> <<"Time">>])
        @@ (VIBRATION_EP_ID :>
            [PROFILE_ID |-> "zha", DEVICE_TYPE |-> "IAS_ZONE",
             INPUT_CLUSTERS |-> <<"CustomBasicCluster", "Groups", "Scenes",
                                  "CustomTuyaVibrationCluster">>,
             OUTPUT_CLUSTERS |-> <<"Time">>])]

\* The ZCL cluster type (ep_attribute) each class or cluster id stands for.
ClusterType(cls) ==
    CASE cls = "CustomBasicCluster" -> "basic"
      [] cls = "CustomTuyaPowerConfigurationCluster" -> "power"
      [] cls = "CustomTuyaContactSwitchCluster" -> "ias_zone"
      [] cls = "CustomTuyaVibrationCluster" -> "ias_zone"
      [] cls = "CustomTuyaDPProcessor" -> "tuya_manufacturer"
      [] cls = "Groups" -> "groups"
      [] cls = "Scenes" -> "scenes"
      [] cls = "Time" -> "time"
      [] cls = "Ota" -> "ota"

(* ------------------------------ constructors --------------------------- *)
EmptyCache == [a \in {} |-> 0]

update_attribute(cache, attr_name, value) == (attr_name :> value) @@ cache

CustomBasicCluster_init ==
    update_attribute(EmptyCache, "power_source", "Battery")

\* Variant: the initial battery level seeded in the device's 1% steps.
CustomTuyaPowerConfigurationCluster_init_unscaled ==
    update_attribute(
        update_attribute(
            update_attribute(EmptyCache, "battery_size", "AAA"),
            "battery_quantity", IntVal(2)),
        "battery_percentage_remaining", IntVal(100))

CustomTuyaPowerConfigurationCluster_init ==
    update_attribute(
        update_attribute(
            update_attribute(EmptyCache, "battery_size", "AAA"),
            "battery_quantity", IntVal(2)),
        "battery_percentage_remaining", IntVal(100 * 2))

CustomTuyaContactSwitchCluster_init ==
    update_attribute(
        update_attribute(
            update_attribute(EmptyCache, "zone_state", ZONE_STATE),
            "zone_type", "Contact_Switch"),
        "zone_status", IntVal(0))

CustomTuyaVibrationCluster_init ==
    update_attribute(
        update_attribute(
            update_attribute(EmptyCache, "zone_state", ZONE_STATE),
            "zone_type", "Vibration_Movement_Sensor"),
        "zone_status", IntVal(0))

\* Instantiating a class on an endpoint runs its constructor.
new_cluster(cls, endpoint_id) ==
    [cls |-> cls, endpoint_id |-> endpoint_id,
     _attr_cache |->
        CASE cls = "CustomBasicCluster" -> CustomBasicCluster_init
          [] cls = "CustomTuyaPowerConfigurationCluster" ->
                 CustomTuyaPowerConfigurationCluster_init
          [] cls = "CustomTuyaContactSwitchCluster" ->
                 CustomTuyaContactSwitchCluster_init
          [] cls = "CustomTuyaVibrationCluster" ->
                 CustomTuyaVibrationCluster_init
          [] OTHER -> EmptyCache]

\* Clusters of an endpoint are kept by cluster type; a later entry of the
\* same type replaces the earlier one.
RECURSIVE add_clusters(_, _)
add_clusters(classes, endpoint_id) ==
    IF classes = <<>> THEN [t \in {} |-> 0]
    ELSE LET cls == classes[Len(classes)]
         IN  (ClusterType(cls) :> new_cluster(cls, endpoint_id))
                 @@ add_clusters(SubSeq(classes, 1, Len(classes) - 1), endpoint_id)

TS0601Door_init ==
    [ep \in DOMAIN replacement.ENDPOINTS |->
        [in_clusters |-> add_clusters(replacement.ENDPOINTS[ep].INPUT_CLUSTERS, ep),
         out_clusters |-> add_clusters(replacement.ENDPOINTS[ep].OUTPUT_CLUSTERS, ep)]]

(* ------------------------------ dispatch ------------------------------- *)
\* Outcome of translating one report on a device: the new endpoints and how
\* the report ended.
Outcome(eps, status) == [endpoints |-> eps, status |-> status]

\* Variant: the raw payload is written before the converter is applied.
_dp_2_attr_update_write_first(eps, dp, payload) ==
    IF dp \notin DOMAIN dp_to_attribute THEN Outcome(eps, "ignored")
    ELSE LET dp_map == dp_to_attribute[dp]
             value == converter(dp_map.converter, payload)
             stored == IF value.kind = "TypeError" THEN payload ELSE value
         IN  Outcome(
               [eps EXCEPT
                  ![dp_map.endpoint_id].in_clusters[dp_map.ep_attribute]._attr_cache =
                      update_attribute(@, dp_map.attribute_name, stored)],
               IF value.kind = "TypeError" THEN "failed" ELSE "updated")

_dp_2_attr_update(eps, dp, payload) ==
    IF dp \notin DOMAIN dp_to_attribute THEN Outcome(eps, "ignored")
    ELSE LET dp_map == dp_to_attribute[dp]
         IN  IF \/ dp_map.endpoint_id \notin DOMAIN eps
                \/ dp_map.ep_attribute
                       \notin DOMAIN eps[dp_map.endpoint_id].in_clusters
             THEN Outcome(eps, "no_target")
             ELSE LET value == converter(dp_map.converter, payload)
                  IN  IF value.kind = "TypeError" THEN Outcome(eps, "failed")
                      ELSE Outcome(
                             [eps EXCEPT
                                ![dp_map.endpoint_id].in_clusters[dp_map.ep_attribute]._attr_cache =
                                    update_attribute(@, dp_map.attribute_name, value)],
                             "updated")

handle_get_data(eps, dp, payload) ==
    IF dp \notin DOMAIN data_point_handlers THEN Outcome(eps, "ignored")
    ELSE _dp_2_attr_update(eps, dp, payload)

(* ------------------------------ behaviour ------------------------------ *)
\* Ids whose latest report is remembered for the properties below.
TrackedIds == {1, 3, 10}

Init ==
    /\ endpoints = TS0601Door_init
    /\ lastReport = [dp |-> 0, status |-> "none"]
    /\ latest = [d \in TrackedIds |-> NoReport]
    /\ latestOk = [d \in TrackedIds |-> NoReport]

DataPointReport(dp, payload) ==
    LET out == handle_get_data(endpoints, dp, payload)
    IN  /\ endpoints' = out.endpoints
        /\ lastReport' = [dp |-> dp, status |-> out.status]
        /\ latest' = IF dp \in TrackedIds
                     THEN [latest EXCEPT ![dp] = payload] ELSE latest
        /\ latestOk' = IF dp \in TrackedIds /\ out.status # "failed"
                       THEN [latestOk EXCEPT ![dp] = payload] ELSE latestOk

Next == \E dp \in DpIds, payload \in Payloads : DataPointReport(dp, payload)

Spec == Init /\ [][Next]_vars

\* The device as deployed: battery level over its whole range, binary
\* door and vibration states.
BatteryReport == \E r \in 0..MaxBatteryRaw : DataPointReport(3, IntVal(r))

SensorReport == \E dp \in {1, 10}, b \in 0..1 : DataPointReport(dp, IntVal(b))

NextDeployed == BatteryReport \/ SensorReport

SpecDeployed == Init /\ [][NextDeployed]_vars

TypeOK ==
    /\ DOMAIN endpoints = {1, 2, 3}
    /\ lastReport.dp \in DpIds
    /\ lastReport.status \in {"none", "ignored", "updated", "failed", "no_target"}

(* ============================ properties =============================== *)
\* Value of an attribute of the input cluster of type cl on endpoint ep.
Attr(eps, ep, cl, name) == eps[ep].in_clusters[cl]._attr_cache[name]

\* eps with one attribute put back to the value it has in old.
Restore(eps, old, ep, cl, name) ==
    [eps EXCEPT ![ep].in_clusters[cl]._attr_cache[name] = Attr(old, ep, cl, name)]

DoorStatus == Attr(endpoints, 2, "ias_zone", "zone_status")
VibrationStatus == Attr(endpoints, 3, "ias_zone", "zone_status")
BatteryPercentage == Attr(endpoints, 1, "power", "battery_percentage_remaining")

\* The attribute each known data point is documented to feed.
StoredFor(dp) ==
    CASE dp = 1 -> DoorStatus
      [] dp = 10 -> VibrationStatus
      [] dp = 3 -> BatteryPercentage

InitialFor(dp) == IF dp = 3 THEN IntVal(200) ELSE IntVal(0)

ConverterFor(dp) == IF dp = 3 THEN "battery_converter" ELSE "zone_status_converter"

\* C1: a report whose id is none of 1, 3, 10 leaves every attribute of every
\* cluster on the three endpoints as it was, and surfaces no error.
C1_UnknownIdIsNoOp ==
    [][lastReport'.dp \notin {1, 3, 10}
          => /\ endpoints' = endpoints
             /\ lastReport'.status = "ignored"]_vars

\* An unknown id was reported on a device that already left its initial state.
C1_Witness ==
    /\ lastReport.dp \notin {1, 3, 10}
    /\ lastReport.status = "ignored"
    /\ endpoints # TS0601Door_init

\* C2: after a battery report (id 3) with raw value r in [0,100],
\* battery_percentage_remaining on endpoint 1 equals 2*r and lies in [0,200].
C2_BatteryScaledByTwo ==
    (latest[3].kind = "int" /\ latest[3].int \in 0..100)
        => /\ BatteryPercentage = IntVal(latest[3].int + latest[3].int)
           /\ BatteryPercentage.int \in 0..200

\* A full battery (raw 100) was just reported and stored as 200.
C2_Witness ==
    /\ lastReport = [dp |-> 3, status |-> "updated"]
    /\ latest[3] = IntVal(100)
    /\ BatteryPercentage = IntVal(200)
    /\ DoorStatus = IntVal(1)

\* C3: after a door (id 1) or vibration (id 10) report with an integer raw
\* value, zone_status of the target IasZone cluster is raw AND bit 0: raw 0
\* stores 0 and any raw value with bit 0 set stores exactly 1.
C3_ZoneStatusIsAlarmBit ==
    \A dp \in {1, 10} :
        latest[dp].kind = "int"
            => LET raw == latest[dp].int
                   stored == StoredFor(dp)
               IN  /\ stored.kind = "int"
                   /\ stored.int = raw % 2
                   /\ raw = 0 => stored = IntVal(0)
                   /\ raw % 2 = 1 => stored = IntVal(1)

\* A door status word with every bit set stored 1, and a vibration status
\* word with only another bit set stored 0.
C3_Witness ==
    /\ latest[1] = IntVal(0 - 1) /\ DoorStatus = IntVal(1)
    /\ latest[10] = IntVal(2) /\ VibrationStatus = IntVal(0)

\* C4: before any report, battery_percentage_remaining = 200, battery_size =
\* AAA, battery_quantity = 2, zone_status = 0 on both IasZone clusters,
\* zone_type is Contact_Switch on endpoint 2 and Vibration_Movement_Sensor on
\* endpoint 3, and power_source = Battery on the Basic cluster of each endpoint.
C4_InitialAttributes ==
    lastReport.status = "none"
        => /\ BatteryPercentage = IntVal(200)
           /\ Attr(endpoints, 1, "power", "battery_size") = "AAA"
           /\ Attr(endpoints, 1, "power", "battery_quantity") = IntVal(2)
           /\ DoorStatus = IntVal(0)
           /\ VibrationStatus = IntVal(0)
           /\ Attr(endpoints, 2, "ias_zone", "zone_type") = "Contact_Switch"
           /\ Attr(endpoints, 3, "ias_zone", "zone_type") = "Vibration_Movement_Sensor"
           /\ \A ep \in {1, 2, 3} :
                  Attr(endpoints, ep, "basic", "power_source") = "Battery"

\* The freshly constructed device, no report processed yet.
C4_Witness ==
    /\ lastReport.status = "none"
    /\ \A dp \in {1, 3, 10} : latest[dp] = NoReport
    /\ DOMAIN endpoints = {1, 2, 3}

\* C5: a report writes only its own target attribute: id 1 only zone_status
\* on endpoint 2, id 10 only zone_status on endpoint 3, id 3 only
\* battery_percentage_remaining on endpoint 1; from the initial state, id 1
\* with raw 1 makes the door zone_status 1 and leaves the vibration one 0.
C5_WritesOnlyOwnTarget ==
    [][/\ lastReport'.dp = 1
           => Restore(endpoints', endpoints, 2, "ias_zone", "zone_status") = endpoints
       /\ lastReport'.dp = 10
           => Restore(endpoints', endpoints, 3, "ias_zone", "zone_status") = endpoints
       /\ lastReport'.dp = 3
           => Restore(endpoints', endpoints, 1, "power",
                      "battery_percentage_remaining") = endpoints
       /\ (lastReport.status = "none" /\ lastReport'.dp = 1 /\ latest'[1] = IntVal(1))
           => /\ Attr(endpoints', 2, "ias_zone", "zone_status") = IntVal(1)
              /\ Attr(endpoints', 3, "ias_zone", "zone_status") = IntVal(0)]_vars

\* The door was reported open as the only report so far.
C5_Witness ==
    /\ lastReport = [dp |-> 1, status |-> "updated"]
    /\ latest = [d \in TrackedIds |-> IF d = 1 THEN IntVal(1) ELSE NoReport]
    /\ DoorStatus = IntVal(1)
    /\ VibrationStatus = IntVal(0)
    /\ BatteryPercentage = IntVal(200)

\* Number of entries of a cluster list that stand for cluster type t.
Occurrences(classes, t) ==
    Cardinality({i \in 1..Len(classes) : ClusterType(classes[i]) = t})

ClusterTypes ==
    {"basic", "groups", "scenes", "power", "ias_zone", "tuya_manufacturer",
     "time", "ota"}

\* C6: every synthesized endpoint declares and carries at most one cluster of
\* any type, every cluster instance belongs to the one endpoint it sits on,
\* endpoints 2 and 3 carry exactly one IasZone each and endpoint 1 none.
C6_Topology ==
    /\ DOMAIN replacement.ENDPOINTS = {1, 2, 3}
    /\ DOMAIN endpoints = {1, 2, 3}
    /\ \A ep \in {1, 2, 3}, t \in ClusterTypes :
          /\ Occurrences(replacement.ENDPOINTS[ep].INPUT_CLUSTERS, t) <= 1
          /\ Occurrences(replacement.ENDPOINTS[ep].OUTPUT_CLUSTERS, t) <= 1
    /\ \A ep \in {1, 2, 3} :
          /\ Cardinality(DOMAIN endpoints[ep].in_clusters)
                 = Len(replacement.ENDPOINTS[ep].INPUT_CLUSTERS)
          /\ Cardinality(DOMAIN endpoints[ep].out_clusters)
                 = Len(replacement.ENDPOINTS[ep].OUTPUT_CLUSTERS)
          /\ \A t \in DOMAIN endpoints[ep].in_clusters :
                 endpoints[ep].in_clusters[t].endpoint_id = ep
          /\ \A t \in DOMAIN endpoints[ep].out_clusters :
                 endpoints[ep].out_clusters[t].endpoint_id = ep
    /\ Occurrences(replacement.ENDPOINTS[1].INPUT_CLUSTERS, "ias_zone") = 0
    /\ Occurrences(replacement.ENDPOINTS[2].INPUT_CLUSTERS, "ias_zone") = 1
    /\ Occurrences(replacement.ENDPOINTS[3].INPUT_CLUSTERS, "ias_zone") = 1
    /\ "ias_zone" \notin DOMAIN endpoints[1].in_clusters
    /\ endpoints[2].in_clusters["ias_zone"].cls = "CustomTuyaContactSwitchCluster"
    /\ endpoints[3].in_clusters["ias_zone"].cls = "CustomTuyaVibrationCluster"

\* Both IasZone instances exist and have been written independently.
C6_Witness ==
    /\ "ias_zone" \in DOMAIN endpoints[2].in_clusters
    /\ "ias_zone" \in DOMAIN endpoints[3].in_clusters
    /\ DoorStatus = IntVal(1)
    /\ VibrationStatus = IntVal(0)
    /\ lastReport.dp = 10

\* What the attribute fed by dp holds once the reports that failed are left
\* out of the history.
ExpectedFrom(history, dp) ==
    IF history[dp] = NoReport THEN InitialFor(dp)
    ELSE converter(ConverterFor(dp), history[dp])

\* C7: a report whose conversion fails changes no attribute cache, and the
\* device keeps translating: every mapped attribute holds what the reports
\* that did not fail would have produced alone.
C7_FailureCostsOneReport ==
    /\ [](\A dp \in {1, 3, 10} : StoredFor(dp) = ExpectedFrom(latestOk, dp))
    /\ [][lastReport'.status = "failed"
             => /\ endpoints' = endpoints
                /\ latestOk' = latestOk]_vars

\* A door report failed after a good one, and a later vibration report was
\* still translated.
C7_Witness ==
    /\ latest[1].kind = "bytes"
    /\ latestOk[1] = IntVal(1)
    /\ DoorStatus = IntVal(1)
    /\ lastReport = [dp |-> 10, status |-> "updated"]
    /\ VibrationStatus = IntVal(1)

C9_SeededAttributesKept ==
    /\ Restore(Restore(Restore(endpoints, TS0601Door_init,
                               2, "ias_zone", "zone_status"),
                       TS0601Door_init, 3, "ias_zone", "zone_status"),
               TS0601Door_init, 1, "power", "battery_percentage_remaining")
           = TS0601Door_init
    /\ Attr(endpoints, 1, "power", "battery_size") = "AAA"
    /\ Attr(endpoints, 1, "power", "battery_quantity") = IntVal(2)
    /\ Attr(endpoints, 2, "ias_zone", "zone_type") = "Contact_Switch"
    /\ Attr(endpoints, 3, "ias_zone", "zone_type") = "Vibration_Movement_Sensor"
    /\ Attr(endpoints, 2, "ias_zone", "zone_state") = ZONE_STATE
    /\ Attr(endpoints, 3, "ias_zone", "zone_state") = ZONE_STATE
    /\ \A ep \in {1, 2, 3} : Attr(endpoints, ep, "basic", "power_source") = "Battery"

\* All three mapped attributes have left their initial values and an
\* unknown id has been reported.
C9_Witness ==
    /\ DoorStatus = IntVal(1)
    /\ VibrationStatus = IntVal(1)
    /\ BatteryPercentage # IntVal(200)
    /\ lastReport.status = "ignored"

\* Number of items of a dict literal written with key k.
ItemsFor(items, k) == Cardinality({i \in 1..Len(items) : items[i][1] = k})

\* C10: data_point_handlers and dp_to_attribute have the same ids, 1, 3 and
\* 10, each written once; the targets are IasZone on endpoint 2, IasZone on
\* endpoint 3 and PowerConfiguration on endpoint 1, each an existing cluster
\* instance, so no known report finds its endpoint or cluster missing.
C10_TablesConsistent ==
    /\ DOMAIN data_point_handlers = {1, 3, 10}
    /\ DOMAIN dp_to_attribute = {1, 3, 10}
    /\ \A dp \in {1, 3, 10} :
          /\ ItemsFor(dp_to_attribute_items, dp) = 1
          /\ ItemsFor(data_point_handlers_items, dp) = 1
          /\ data_point_handlers[dp] = "_dp_2_attr_update"
          /\ dp_to_attribute[dp].endpoint_id \in DOMAIN endpoints
          /\ dp_to_attribute[dp].ep_attribute
                 \in DOMAIN endpoints[dp_to_attribute[dp].endpoint_id].in_clusters
    /\ <<dp_to_attribute[1].endpoint_id, dp_to_attribute[1].ep_attribute>>
           = <<2, "ias_zone">>
    /\ <<dp_to_attribute[10].endpoint_id, dp_to_attribute[10].ep_attribute>>
           = <<3, "ias_zone">>
    /\ <<dp_to_attribute[3].endpoint_id, dp_to_attribute[3].ep_attribute>>
           = <<1, "power">>
    /\ endpoints[1].in_clusters["power"].cls = "CustomTuyaPowerConfigurationCluster"
    /\ lastReport.status # "no_target"
    /\ lastReport.dp \in {1, 3, 10} => lastReport.status \in {"updated", "failed"}

\* Each of the three known ids has been dispatched and reached its cluster.
C10_Witness ==
    /\ \A dp \in {1, 3, 10} : latestOk[dp] # NoReport
    /\ lastReport = [dp |-> 3, status |-> "updated"]
====
